---- MODULE Spec2Model ----
(***************************************************************************)
(* Chunked parallel filter engine of the Spur feed tools                   *)
(* (tools/Feeds/spurfeedmultifilter.py, customfeedmultifilter.py,          *)
(* customfeedfilter.py): get_file_chunks plans byte ranges over a          *)
(* line-delimited JSON file, one process_file_chunk worker reads each      *)
(* range, and the __main__ loop writes the workers' results to the output  *)
(* file as they complete.  A last part models the chunking by line index   *)
(* of tools/ServiceMetrics/serviceMetrics-customfilter.py.                 *)
(***************************************************************************)
EXTENDS Integers, Sequences, FiniteSets, TLC

\* ---------------------------------------------------------------- bounds
\* Largest source file, in bytes, and largest worker count.
MaxFileSize == 5
MaxWorkers == 2

\* --------------------------------------------------------------- scripts
\* "spurfeedmultifilter" stands for the two multiprocessing.Pool scripts
\* (spurfeedmultifilter.py and customfeedmultifilter.py share the same
\* __main__ loop); "customfeedfilter" is the ThreadPoolExecutor script.
Scripts == {"spurfeedmultifilter", "customfeedfilter"}

\* ------------------------------------------------------------ line texts
\* The text of a line with its terminator stripped (line.strip()).  The
\* texts are symbolic: the byte length of a line is carried separately.
CompactMatch == "{\"m\":1}"
CanonMatch == "{\"m\": 1}"
CanonOther == "{\"a\": 1}"
Malformed == "{bad"
Blank == ""

LineBodies == {CompactMatch, CanonMatch, CanonOther, Malformed, Blank}

\* json.loads: the texts that parse, and the value they parse to.
JsonParses(text) == text \in {CompactMatch, CanonMatch, CanonOther}

json_loads(text) ==
    CASE text = CompactMatch -> "obj_m"
      [] text = CanonMatch -> "obj_m"
      [] text = CanonOther -> "obj_a"

\* Faulty variant of json_dumps: separators "," and ":".
json_dumps_compact(obj) ==
    CASE obj = "obj_m" -> CompactMatch
      [] obj = "obj_a" -> CanonOther

\* json.dumps(obj, ensure_ascii=False): default separators ", " and ": ".
json_dumps(obj) ==
    CASE obj = "obj_m" -> CanonMatch
      [] obj = "obj_a" -> CanonOther

\* The decision of the filter on a parsed record (final_match).
final_match(obj) == obj = "obj_m"

VARIABLES
    script,                  \* which __main__ loop runs
    file,                    \* the source file: sequence of lines
                             \* [body, len, wide, cr]
    trailingNL,              \* whether the last line ends with "\n"
    num_chunks,              \* NUM_PARALLEL_PROCESSORS
    pc,                      \* position of the orchestrator
    chunks,                  \* result of get_file_chunks
    wpc,                     \* position of each worker
    fpos,                    \* position of each worker's file handle
    current_byte,            \* each worker's tracked offset
    matching_objects,        \* each worker's result list
    results,                 \* completed tasks not yet yielded
    received,                \* tasks whose result the orchestrator took
    in_chunk,                \* chunk whose list is being written (0: none)
    wi,                      \* index of the next object of that list
    outfile,                 \* lines appended to the output file
    records_exported_count,
    msgs,                    \* messages printed
    \* The evaluation of the filter on one line (the try block of
    \* process_file_chunk), with the filter that __main__ built for it.
    line_stripped,           \* the line, as a sequence of characters
    json_obj,                \* json.loads(line_stripped)
    filter_criteria,         \* the criteria __main__ collected
    overall_match_type,      \* "AND" or "OR"
    epc,                     \* position of the evaluation
    flattened_obj,           \* flatten_json(json_obj) of the last criterion
    criterion_results,       \* one boolean per evaluated criterion
    appended,                \* whether json_obj was appended to the matches
    \* The chunking by line index of serviceMetrics-customfilter.py.
    NUM_PARALLEL_PROCESSORS,
    content_lines,           \* decompressed_data.splitlines()
    chunk_size_lines,
    li,                      \* the i of "for i in range(...)"
    chunks_data,             \* the chunks built, with their line ranges
    lpc,                     \* position of the chunking
    seen                     \* per submitted chunk, the lines its task handled

lineVars == <<NUM_PARALLEL_PROCESSORS, content_lines, chunk_size_lines, li,
              chunks_data, lpc, seen>>

evalVars == <<line_stripped, json_obj, filter_criteria, overall_match_type,
              epc, flattened_obj, criterion_results, appended>>

vars == <<script, file, trailingNL, num_chunks, pc, chunks, wpc, fpos,
          current_byte, matching_objects, results, received, in_chunk, wi,
          outfile, records_exported_count, msgs, evalVars, lineVars>>

\* ------------------------------------------------------- file geometry
NumLines == Len(file)

\* Bytes of line i, terminator included.
LineBytes(i) ==
    file[i].len + (IF i < NumLines \/ trailingNL THEN 1 ELSE 0)

RECURSIVE LineStart(_)
\* Byte offset at which line i begins; LineStart(NumLines + 1) is the size.
LineStart(i) == IF i <= 1 THEN 0 ELSE LineStart(i - 1) + LineBytes(i - 1)

file_size == LineStart(NumLines + 1)

\* Index of the line holding byte p (p < file_size).
LineAt(p) ==
    CHOOSE i \in 1..NumLines : LineStart(i) <= p /\ p < LineStart(i + 1)

\* f.seek(p); f.readline(); f.tell() on the file opened in binary mode.
ReadlineTell(p) ==
    IF p >= file_size THEN file_size ELSE LineStart(LineAt(p) + 1)

\* ------------------------------------------------------ get_file_chunks
\* Faulty variant: readline() from the start itself, without stepping one
\* byte back, so a start already at a line beginning skips that line.
AdjustStart_no_step_back(start_byte) ==
    IF start_byte > 0 THEN ReadlineTell(start_byte) ELSE start_byte

\* Faulty variant: the naive boundary is kept.
AdjustStart_unadjusted(start_byte) == start_byte

\* Lines 119-123: a start past byte 0 moves to the position after the
\* readline() that begins one byte before it.
AdjustStart(start_byte) ==
    IF start_byte > 0 THEN ReadlineTell(start_byte - 1) ELSE start_byte

\* Lines 109-126: n ranges of file_size // n bytes, the last one running to
\* the end of the file; only the starts are moved to a line beginning.
get_file_chunks(n) ==
    LET chunk_size == file_size \div n
    IN  [i \in 1..n |->
            [start_byte |-> AdjustStart((i - 1) * chunk_size),
             end_byte |-> IF i < n THEN i * chunk_size ELSE file_size]]

\* --------------------------------------------------- process_file_chunk
\* What the worker adds to current_byte for line i, of which the handle
\* yields the last `bytes` bytes.  The handle is opened in text mode: the
\* terminator "\r\n" reaches the script as "\n".  The Pool scripts add
\* len(line.encode('utf-8')), the bytes of the decoded text; customfeedfilter
\* adds len(line), its characters, one per character of several bytes too.
CountedLen(i, bytes) ==
    bytes - (IF file[i].cr THEN 1 ELSE 0)
          - (IF script = "customfeedfilter" THEN file[i].wide ELSE 0)

\* The next line a text-mode handle at offset p yields (p < file_size).  A
\* handle standing inside a line yields the rest of that line, which is
\* taken not to parse.
NextLine(p) ==
    LET i == LineAt(p)
    IN  [line |-> i,
         bytes |-> LineStart(i + 1) - p,
         counted |-> CountedLen(i, LineStart(i + 1) - p),
         body |-> IF p = LineStart(i) \/ file[i].body = Blank
                  THEN file[i].body ELSE Malformed]

\* Faulty variant of ProcessLine: a line that fails to parse ends the loop.
ProcessLine_break_on_error(cb, objs, ln, end_byte) ==
    LET new_cb == cb + ln.counted
    IN  IF ln.body = Blank
        THEN [current_byte |-> new_cb, matching_objects |-> objs,
              brk |-> new_cb >= end_byte]
        ELSE IF ~JsonParses(ln.body)
        THEN [current_byte |-> new_cb, matching_objects |-> objs,
              brk |-> TRUE]
        ELSE [current_byte |-> new_cb,
              matching_objects |->
                  IF final_match(json_loads(ln.body))
                  THEN Append(objs, [line |-> ln.line,
                                     obj |-> json_loads(ln.body)])
                  ELSE objs,
              brk |-> new_cb >= end_byte]

\* Faulty variant of ProcessLine: a match is put at the front of the list.
ProcessLine_prepend(cb, objs, ln, end_byte) ==
    LET new_cb == cb + ln.counted
    IN  [current_byte |-> new_cb,
         matching_objects |->
             IF ln.body # Blank /\ JsonParses(ln.body)
                /\ final_match(json_loads(ln.body))
             THEN <<[line |-> ln.line, obj |-> json_loads(ln.body)]>> \o objs
             ELSE objs,
         brk |-> new_cb >= end_byte]

\* One pass of the body of "for line in f" (lines 143-305): the new tracked
\* offset, the new result list and whether the loop breaks.  A blank line
\* is skipped, a line that fails to parse is passed over.
ProcessLine(cb, objs, ln, end_byte) ==
    LET new_cb == cb + ln.counted
    IN  IF ln.body = Blank
        THEN [current_byte |-> new_cb, matching_objects |-> objs,
              brk |-> new_cb >= end_byte]
        ELSE IF ~JsonParses(ln.body)
        THEN [current_byte |-> new_cb, matching_objects |-> objs,
              brk |-> new_cb >= end_byte]
        ELSE [current_byte |-> new_cb,
              matching_objects |->
                  IF final_match(json_loads(ln.body))
                  THEN Append(objs, [line |-> ln.line,
                                     obj |-> json_loads(ln.body)])
                  ELSE objs,
              brk |-> new_cb >= end_byte]

\* ------------------------------------------------------------- messages
\* A message is its fixed text, the exception it interpolates ("" for none)
\* and the record count it interpolates (<<>> for none).
SourceError == "OSError: source file"
OutputError == "OSError: output file"

MsgSuccess(n) ==
    [text |-> "Successfully exported", exc |-> "", count |-> <<n>>]

MsgChunkError(e) ==
    [text |-> "Error processing chunk", exc |-> e, count |-> <<>>]

MsgExportError(e) ==
    [text |-> "Error during streaming export", exc |-> e, count |-> <<>>]

IsErrorMsg(m) == m.exc # ""

\* ----------------------------------------------------------------- Init
\* No chunking by line index is under way.
LinesIdle ==
    /\ NUM_PARALLEL_PROCESSORS = 1
    /\ content_lines = <<>>
    /\ chunk_size_lines = 0
    /\ li = 0
    /\ chunks_data = <<>>
    /\ lpc = "idle"
    /\ seen = <<>>

\* No single-line evaluation is under way.
EvalIdle ==
    /\ line_stripped = <<>>
    /\ json_obj = [t |-> "null"]
    /\ filter_criteria = <<>>
    /\ overall_match_type = "AND"
    /\ epc = "idle"
    /\ flattened_obj = <<>>
    /\ criterion_results = <<>>
    /\ appended = FALSE

\* A line of the file: its text, the bytes before its "\n" (a "\r" that
\* ends it included), how many of them are continuation bytes of characters
\* of several bytes, and whether it ends with "\r\n".
Line(body, len, wide, cr) ==
    [body |-> body, len |-> len, wide |-> wide, cr |-> cr]

\* The lines of b bytes, terminator included, of ASCII text ending with
\* "\n": a blank line is the bare terminator, any other text has at least
\* one byte before it.
LinesOfBytes(b) ==
    IF b = 1
    THEN {Line(Blank, 0, 0, FALSE)}
    ELSE {Line(t, b - 1, 0, FALSE) : t \in LineBodies \ {Blank}}

RECURSIVE FilesOfBytes(_)
\* The files of exactly n bytes whose lines all end with "\n".
FilesOfBytes(n) ==
    IF n = 0
    THEN {<<>>}
    ELSE UNION {{Append(f, l) : f \in FilesOfBytes(n - b),
                                l \in LinesOfBytes(b)} : b \in 1..n}

\* The source files of at most MaxFileSize bytes: a file whose last line
\* has no terminator is one byte shorter than the same lines terminated.
Files(nl) ==
    UNION {FilesOfBytes(n) :
               n \in 0..(IF nl THEN MaxFileSize ELSE MaxFileSize + 1)}

Init ==
    /\ script \in Scripts
    /\ trailingNL \in BOOLEAN
    /\ file \in Files(trailingNL)
    /\ (Len(file) = 0 => ~trailingNL)
    /\ (Len(file) > 0 /\ ~trailingNL => file[Len(file)].len > 0)
    /\ num_chunks \in 1..MaxWorkers
    /\ pc = "plan"
    /\ chunks = <<>>
    /\ wpc = [w \in 1..num_chunks |-> "idle"]
    /\ fpos = [w \in 1..num_chunks |-> 0]
    /\ current_byte = [w \in 1..num_chunks |-> 0]
    /\ matching_objects = [w \in 1..num_chunks |-> <<>>]
    /\ results = <<>>
    /\ received = {}
    /\ in_chunk = 0
    /\ wi = 1
    /\ outfile = <<>>
    /\ records_exported_count = 0
    /\ msgs = {}
    /\ EvalIdle
    /\ LinesIdle

\* What no action of a run changes: the source file, the worker count and
\* the filter (whose decision on a record is final_match here).
inputs == <<script, file, trailingNL, num_chunks, evalVars, lineVars>>
workerVars == <<wpc, fpos, current_byte, matching_objects>>
writerVars == <<in_chunk, wi, outfile, records_exported_count>>

\* -------------------------------------------------------------- workers
\* pool.terminate() on leaving the "with" block after sys.exit(1).
PoolAlive == pc \in {"collect", "write"}

\* Faulty variant of WorkerOpen: the workers seek on one handle they share,
\* so the seek of one worker moves the position of all of them.
WorkerOpen_shared_handle(w) ==
    /\ PoolAlive
    /\ wpc[w] = "pending"
    /\ wpc' = [wpc EXCEPT ![w] = "reading"]
    /\ fpos' = [v \in 1..num_chunks |-> chunks[w].start_byte]
    /\ current_byte' = [current_byte EXCEPT ![w] = chunks[w].start_byte]
    /\ matching_objects' = [matching_objects EXCEPT ![w] = <<>>]
    /\ UNCHANGED <<inputs, pc, chunks, results, received, writerVars, msgs>>


\* open(filepath) and f.seek(start_byte), lines 138-141.
WorkerOpen(w) ==
    /\ PoolAlive
    /\ wpc[w] = "pending"
    /\ wpc' = [wpc EXCEPT ![w] = "reading"]
    /\ fpos' = [fpos EXCEPT ![w] = chunks[w].start_byte]
    /\ current_byte' = [current_byte EXCEPT ![w] = chunks[w].start_byte]
    /\ matching_objects' = [matching_objects EXCEPT ![w] = <<>>]
    /\ UNCHANGED <<inputs, pc, chunks, results, received, writerVars, msgs>>

\* Faulty variant of WorkerReadLine: at the end of the file the loop is not
\* left, so the task never completes.
WorkerReadLine_spins_at_eof(w) ==
    /\ PoolAlive
    /\ wpc[w] = "reading"
    /\ fpos[w] < file_size
    /\ LET ln == NextLine(fpos[w])
           r == ProcessLine(current_byte[w], matching_objects[w], ln,
                            chunks[w].end_byte)
       IN  /\ fpos' = [fpos EXCEPT ![w] = @ + ln.bytes]
           /\ current_byte' = [current_byte EXCEPT ![w] = r.current_byte]
           /\ matching_objects' =
                  [matching_objects EXCEPT ![w] = r.matching_objects]
           /\ wpc' = [wpc EXCEPT ![w] =
                          IF r.brk THEN "returned" ELSE "reading"]
           /\ results' = IF r.brk THEN Append(results, w) ELSE results
    /\ UNCHANGED <<inputs, pc, chunks, received, writerVars, msgs>>


\* One iteration of "for line in f", or its end at end of file; the task
\* completes with its list when the loop is left.
WorkerReadLine(w) ==
    /\ PoolAlive
    /\ wpc[w] = "reading"
    /\ IF fpos[w] >= file_size
       THEN /\ wpc' = [wpc EXCEPT ![w] = "returned"]
            /\ results' = Append(results, w)
            /\ UNCHANGED <<fpos, current_byte, matching_objects>>
       ELSE LET ln == NextLine(fpos[w])
                r == ProcessLine(current_byte[w], matching_objects[w], ln,
                                 chunks[w].end_byte)
            IN  /\ fpos' = [fpos EXCEPT ![w] = @ + ln.bytes]
                /\ current_byte' = [current_byte EXCEPT ![w] = r.current_byte]
                /\ matching_objects' =
                       [matching_objects EXCEPT ![w] = r.matching_objects]
                /\ wpc' = [wpc EXCEPT ![w] =
                               IF r.brk THEN "returned" ELSE "reading"]
                /\ results' = IF r.brk THEN Append(results, w) ELSE results
    /\ UNCHANGED <<inputs, pc, chunks, received, writerVars, msgs>>

\* open, seek or a read of the source file raises OSError in the worker:
\* the task completes with the exception and the frame's locals are gone.
WorkerRaise(w) ==
    /\ PoolAlive
    /\ wpc[w] \in {"pending", "reading"}
    /\ wpc' = [wpc EXCEPT ![w] = "raised"]
    /\ fpos' = [fpos EXCEPT ![w] = 0]
    /\ current_byte' = [current_byte EXCEPT ![w] = 0]
    /\ matching_objects' = [matching_objects EXCEPT ![w] = <<>>]
    /\ results' = Append(results, w)
    /\ UNCHANGED <<inputs, pc, chunks, received, writerVars, msgs>>

\* --------------------------------------------------------- orchestrator
\* chunks = get_file_chunks(...) and the submission of one task per range
\* (pool.imap_unordered / executor.submit).
Plan ==
    /\ pc = "plan"
    /\ chunks' = get_file_chunks(num_chunks)
    /\ wpc' = [w \in 1..num_chunks |-> "pending"]
    /\ pc' = "collect"
    /\ UNCHANGED <<inputs, fpos, current_byte, matching_objects, results,
                   received, writerVars, msgs>>

\* Positions of the completed tasks the result iterator may yield next:
\* imap_unordered yields in completion order, as_completed yields any
\* finished future.
Yieldable(queue) ==
    IF script = "spurfeedmultifilter"
    THEN (IF Len(queue) > 0 THEN {1} ELSE {})
    ELSE 1..Len(queue)

RemoveAt(queue, k) ==
    [j \in 1..(Len(queue) - 1) |-> IF j < k THEN queue[j] ELSE queue[j + 1]]

\* The iterator yields the list of a task that returned; an empty list
\* leaves the inner loop at once.
NextResult ==
    /\ pc = "collect"
    /\ \E k \in Yieldable(results) :
        LET w == results[k]
        IN  /\ wpc[w] = "returned"
            /\ results' = RemoveAt(results, k)
            /\ received' = received \cup {w}
            /\ IF Len(matching_objects[w]) > 0
               THEN /\ pc' = "write"
                    /\ in_chunk' = w
                    /\ wi' = 1
               ELSE /\ pc' = "collect"
                    /\ UNCHANGED <<in_chunk, wi>>
    /\ UNCHANGED <<inputs, chunks, workerVars, outfile,
                   records_exported_count, msgs>>

\* The iterator yields a task that raised.  In the Pool scripts next()
\* re-raises outside the inner try and the outer handler exits; in
\* customfeedfilter future.result() raises inside the try, whose handler
\* prints and goes on with the next future.
NextResultRaises ==
    /\ pc = "collect"
    /\ \E k \in Yieldable(results) :
        LET w == results[k]
        IN  /\ wpc[w] = "raised"
            /\ results' = RemoveAt(results, k)
            /\ received' = received \cup {w}
    /\ IF script = "spurfeedmultifilter"
       THEN /\ msgs' = msgs \cup {MsgExportError(SourceError)}
            /\ pc' = "failed"
       ELSE /\ msgs' = msgs \cup {MsgChunkError(SourceError)}
            /\ pc' = "collect"
    /\ UNCHANGED <<inputs, chunks, workerVars, writerVars>>

\* outfile.write(json.dumps(obj, ensure_ascii=False) + '\n') and the
\* increment of the count, for the next object of the list.
WriteObj ==
    /\ pc = "write"
    /\ LET objs == matching_objects[in_chunk]
       IN  /\ outfile' = Append(outfile,
                                [chunk |-> in_chunk,
                                 line |-> objs[wi].line,
                                 text |-> json_dumps(objs[wi].obj)])
           /\ records_exported_count' = records_exported_count + 1
           /\ IF wi < Len(objs)
              THEN /\ wi' = wi + 1
                   /\ UNCHANGED <<pc, in_chunk>>
              ELSE /\ pc' = "collect"
                   /\ in_chunk' = 0
                   /\ wi' = 1
    /\ UNCHANGED <<inputs, chunks, workerVars, results, received, msgs>>

\* outfile.write raises OSError: the inner handler prints and the outer
\* loop goes on with the next result.
WriteRaises ==
    /\ pc = "write"
    /\ msgs' = msgs \cup {MsgChunkError(OutputError)}
    /\ pc' = "collect"
    /\ in_chunk' = 0
    /\ wi' = 1
    /\ UNCHANGED <<inputs, chunks, workerVars, results, received, outfile,
                   records_exported_count>>

\* Faulty variant: the loop ends as soon as no completed task is waiting.
IteratorExhausted_on_empty_queue == results = <<>>

\* The result iterator is exhausted once it has yielded every task.
IteratorExhausted == received = 1..num_chunks

\* The loop over the results ends: the success line is printed.
Finish ==
    /\ pc = "collect"
    /\ IteratorExhausted
    /\ msgs' = msgs \cup {MsgSuccess(records_exported_count)}
    /\ pc' = "finished"
    /\ UNCHANGED <<inputs, chunks, workerVars, results, received, writerVars>>

Next ==
    \/ Plan
    \/ \E w \in 1..num_chunks : WorkerOpen(w)
    \/ \E w \in 1..num_chunks : WorkerReadLine(w)
    \/ \E w \in 1..num_chunks : WorkerRaise(w)
    \/ NextResult
    \/ NextResultRaises
    \/ WriteObj
    \/ WriteRaises
    \/ Finish

Spec == Init /\ [][Next]_vars

\* The pool has one process (one thread) per task, so a task that can run
\* keeps running: its open and its reads are taken as long as no exception
\* stops it.
WorkerRuns(w) ==
    /\ w \in 1..num_chunks
    /\ (WorkerOpen(w) \/ WorkerReadLine(w))

\* The __main__ loop goes on as long as it is not stopped by an exception.
OrchestratorRuns == Plan \/ NextResult \/ NextResultRaises \/ WriteObj \/ Finish

Fairness ==
    /\ \A w \in 1..MaxWorkers : WF_vars(WorkerRuns(w))
    /\ WF_vars(OrchestratorRuns)

\* Whether a run ends does not depend on what a line decodes to but on
\* whether it is blank, is appended to the list or is passed over: the runs
\* under fair scheduling start from the files of such lines.
LiveBodies == {Blank, CanonMatch, Malformed}

LiveInit == Init /\ \A i \in 1..Len(file) : file[i].body \in LiveBodies

\* The run under fair scheduling of the workers and of the __main__ loop.
LiveSpec == LiveInit /\ [][Next]_vars /\ Fairness


\* ------------------------------------------------- files of any UTF-8 text
\* The texts of the lines tried for the tracking of offsets.
OffsetBodies == {CanonMatch, Malformed}

\* The lines of b bytes, terminator included, of any text: a line may end
\* with "\r\n" and may hold characters of two bytes.
OffsetLinesOfBytes(b) ==
    {Line(Blank, 0, 0, FALSE) : x \in {1} \cap {b}}
    \cup {Line(Blank, 1, 0, TRUE) : x \in {2} \cap {b}}
    \cup {Line(t, b - 1, wide, FALSE) :
              t \in OffsetBodies, wide \in 0..((b - 1) \div 2)}
    \cup {Line(t, b - 1, wide, TRUE) :
              t \in (IF b >= 3 THEN OffsetBodies ELSE {}),
              wide \in 0..((b - 2) \div 2)}

RECURSIVE OffsetFilesOfBytes(_)
\* The files of exactly n bytes whose lines all end with "\n".
OffsetFilesOfBytes(n) ==
    IF n = 0
    THEN {<<>>}
    ELSE UNION {{Append(f, l) : f \in OffsetFilesOfBytes(n - b),
                                l \in OffsetLinesOfBytes(b)} : b \in 1..n}

OffsetFiles(nl) ==
    UNION {OffsetFilesOfBytes(n) :
               n \in 0..(IF nl THEN MaxFileSize ELSE MaxFileSize + 1)}

\* A run about to plan its chunks over a file of any text.
OffsetInit ==
    /\ script \in Scripts
    /\ trailingNL \in BOOLEAN
    /\ file \in OffsetFiles(trailingNL)
    /\ (Len(file) = 0 => ~trailingNL)
    /\ (Len(file) > 0 /\ ~trailingNL
            => file[Len(file)].len > 0 /\ ~file[Len(file)].cr)
    /\ num_chunks \in 1..MaxWorkers
    /\ pc = "plan"
    /\ chunks = <<>>
    /\ wpc = [w \in 1..num_chunks |-> "idle"]
    /\ fpos = [w \in 1..num_chunks |-> 0]
    /\ current_byte = [w \in 1..num_chunks |-> 0]
    /\ matching_objects = [w \in 1..num_chunks |-> <<>>]
    /\ results = <<>>
    /\ received = {}
    /\ in_chunk = 0
    /\ wi = 1
    /\ outfile = <<>>
    /\ records_exported_count = 0
    /\ msgs = {}
    /\ EvalIdle
    /\ LinesIdle

OffsetSpec == OffsetInit /\ [][Next]_vars


TypeOK ==
    /\ pc \in {"plan", "collect", "write", "finished", "failed"}
    /\ \A w \in 1..num_chunks :
           wpc[w] \in {"idle", "pending", "reading", "returned", "raised"}

\* ======================================================================
\* The filter on one line: flatten_json and the try block of
\* process_file_chunk (spurfeedmultifilter.py lines 151-302), with the
\* criteria as __main__ builds them (lines 618-808).
\* ======================================================================

\* ------------------------------------------------------------- strings
\* A Python str is a sequence of one-character strings.
UpperCase ==
    <<"A", "B", "C", "D", "E", "F", "G", "H", "I", "J", "K", "L", "M", "N",
      "O", "P", "Q", "R", "S", "T", "U", "V", "W", "X", "Y", "Z">>
LowerCase ==
    <<"a", "b", "c", "d", "e", "f", "g", "h", "i", "j", "k", "l", "m", "n",
      "o", "p", "q", "r", "s", "t", "u", "v", "w", "x", "y", "z">>
Digits == <<"0", "1", "2", "3", "4", "5", "6", "7", "8", "9">>

IsDigit(c) == \E i \in 1..Len(Digits) : Digits[i] = c

DigitValue(c) == (CHOOSE i \in 1..Len(Digits) : Digits[i] = c) - 1

\* str.lower()
lower(s) ==
    [i \in 1..Len(s) |->
        IF \E j \in 1..Len(UpperCase) : UpperCase[j] = s[i]
        THEN LowerCase[CHOOSE j \in 1..Len(UpperCase) : UpperCase[j] = s[i]]
        ELSE s[i]]

IsSpace(c) == c = " "

\* str.strip()
strip(s) ==
    LET solid == {i \in 1..Len(s) : ~IsSpace(s[i])}
    IN  IF solid = {}
        THEN <<>>
        ELSE SubSeq(s, CHOOSE i \in solid : \A j \in solid : i <= j,
                       CHOOSE i \in solid : \A j \in solid : j <= i)

\* kw in s
Contains(kw, s) ==
    \E i \in 0..(Len(s) - Len(kw)) : SubSeq(s, i + 1, i + Len(kw)) = kw

startswith(s, p) == Len(p) <= Len(s) /\ SubSeq(s, 1, Len(p)) = p

endswith(s, p) ==
    Len(p) <= Len(s) /\ SubSeq(s, Len(s) - Len(p) + 1, Len(s)) = p

RECURSIVE join(_, _)
\* sep.join(parts)
join(separator, parts) ==
    IF parts = <<>>
    THEN <<>>
    ELSE IF Len(parts) = 1
    THEN parts[1]
    ELSE parts[1] \o separator \o join(separator, Tail(parts))

RECURSIVE str_nat(_)
\* str(n) of a natural number
str_nat(n) ==
    IF n < 10
    THEN <<Digits[n + 1]>>
    ELSE Append(str_nat(n \div 10), Digits[(n % 10) + 1])

\* str(n) of an int
str_int(n) == IF n < 0 THEN <<"-">> \o str_nat(0 - n) ELSE str_nat(n)

\* -------------------------------------------------------- JSON values
\* A parsed JSON value, tagged with its Python type.  A dict keeps its
\* entries in insertion order, as [k, v] pairs.
JNull == [t |-> "null"]
JBool(b) == [t |-> "bool", b |-> b]
JInt(n) == [t |-> "int", n |-> n]
JStr(s) == [t |-> "str", s |-> s]
JList(items) == [t |-> "list", items |-> items]
JDict(items) == [t |-> "dict", items |-> items]

Entry(k, v) == [k |-> k, v |-> v]

RECURSIVE py_repr(_)
RECURSIVE py_str(_)
\* repr(v): a str is quoted, a list shows the repr of its items.
py_repr(v) ==
    IF v.t = "str" THEN <<"'">> \o v.s \o <<"'">> ELSE py_str(v)

\* str(v)
py_str(v) ==
    CASE v.t = "null" -> <<"N", "o", "n", "e">>
      [] v.t = "bool" -> IF v.b THEN <<"T", "r", "u", "e">>
                                 ELSE <<"F", "a", "l", "s", "e">>
      [] v.t = "int" -> str_int(v.n)
      [] v.t = "str" -> v.s
      [] v.t = "list" ->
            <<"[">> \o join(<<",", " ">>,
                            [i \in 1..Len(v.items) |-> py_repr(v.items[i])])
                    \o <<"]">>
      [] v.t = "dict" ->
            <<"{">> \o join(<<",", " ">>,
                            [i \in 1..Len(v.items) |->
                                py_repr(JStr(v.items[i].k)) \o <<":", " ">>
                                    \o py_repr(v.items[i].v)])
                    \o <<"}">>

\* d[k] = v on a dict kept as a sequence of entries.
setitem(d, k, v) ==
    IF \E i \in 1..Len(d) : d[i].k = k
    THEN [i \in 1..Len(d) |-> IF d[i].k = k THEN Entry(k, v) ELSE d[i]]
    ELSE Append(d, Entry(k, v))

RECURSIVE dict(_)
\* dict(items): a repeated key keeps its first place and its last value.
dict(items) ==
    IF items = <<>>
    THEN <<>>
    ELSE LET last == items[Len(items)]
         IN  setitem(dict(SubSeq(items, 1, Len(items) - 1)), last.k, last.v)

\* key in d, d.keys(), d[k]
HasKey(d, k) == \E i \in 1..Len(d) : d[i].k = k

Keys(d) == [i \in 1..Len(d) |-> d[i].k]

GetItem(d, k) == d[CHOOSE i \in 1..Len(d) : d[i].k = k].v

\* -------------------------------------------------------- flatten_json
sep == <<"_">>

\* Line 32: new_key = parent_key + sep + k if parent_key else k
new_key(parent_key, k) ==
    IF parent_key # <<>> THEN parent_key \o sep \o k ELSE k

\* Faulty variant of JoinSimpleValues: the values are joined with ", ".
JoinSimpleValues_spaced(v) ==
    JStr(join(<<",", " ">>, [i \in 1..Len(v) |-> py_str(v[i])]))

\* Line 39: ','.join(map(str, v))
JoinSimpleValues(v) ==
    JStr(join(<<",">>, [i \in 1..Len(v) |-> py_str(v[i])]))

\* Lines 44 and 47: new_key + sep + str(i), i counted from 0.
IndexedKey(key, i) == key \o sep \o str_int(i)

RECURSIVE flatten_json(_, _)
RECURSIVE FlattenEntries(_, _)
RECURSIVE FlattenList(_, _, _)

\* Lines 42-47: the items of a list that holds a dict, from index i on.
FlattenList(v, key, i) ==
    IF i >= Len(v)
    THEN <<>>
    ELSE (IF v[i + 1].t = "dict"
          THEN flatten_json(v[i + 1], IndexedKey(key, i))
          ELSE <<Entry(IndexedKey(key, i), v[i + 1])>>)
         \o FlattenList(v, key, i + 1)

\* Lines 31-49: the items collected over the entries of json_data.
FlattenEntries(entries, parent_key) ==
    IF entries = <<>>
    THEN <<>>
    ELSE LET k == Head(entries).k
             v == Head(entries).v
             key == new_key(parent_key, k)
             items ==
                 CASE v.t = "dict" -> flatten_json(v, key)
                   [] v.t = "list" ->
                         IF \A i \in 1..Len(v.items) : v.items[i].t # "dict"
                         THEN <<Entry(key, JoinSimpleValues(v.items))>>
                         ELSE FlattenList(v.items, key, 0)
                   [] OTHER -> <<Entry(key, v)>>
         IN  items \o FlattenEntries(Tail(entries), parent_key)

\* Lines 23-50, for a dict json_data (any other value has no .items()).
flatten_json(json_data, parent_key) ==
    dict(FlattenEntries(json_data.items, parent_key))

\* ------------------------------------------------------------- numbers
RECURSIVE NatOf(_)
\* The natural number a sequence of digits writes.
NatOf(ds) ==
    IF ds = <<>>
    THEN 0
    ELSE 10 * NatOf(SubSeq(ds, 1, Len(ds) - 1)) + DigitValue(ds[Len(ds)])

RECURSIVE Pow10(_)
Pow10(n) == IF n = 0 THEN 1 ELSE 10 * Pow10(n - 1)

WithoutDots(u) == SelectSeq(u, LAMBDA c : c # ".")

\* A decimal literal without sign or exponent: digits with at most one
\* point and at least one digit ("10", "10.", ".5", "10.5").
IsDecimal(u) ==
    /\ \A i \in 1..Len(u) : IsDigit(u[i]) \/ u[i] = "."
    /\ Len(u) - Len(WithoutDots(u)) <= 1
    /\ Len(WithoutDots(u)) >= 1

\* Digits after the point.
FractionLen(u) ==
    IF \E i \in 1..Len(u) : u[i] = "."
    THEN Len(u) - (CHOOSE i \in 1..Len(u) : u[i] = ".")
    ELSE 0

Unsigned(u) == IF u # <<>> /\ u[1] \in {"-", "+"} THEN Tail(u) ELSE u

SpecialFloats ==
    {<<"i", "n", "f">>, <<"i", "n", "f", "i", "n", "i", "t", "y">>,
     <<"n", "a", "n">>}

\* float(s): whether s converts (no ValueError) and the value, as the
\* fraction sign * num / den.  Leading and trailing blanks are dropped, a
\* sign is allowed, "inf", "infinity" and "nan" are accepted in any case.
\* Exponents and digit-group underscores are not in the alphabet of the
\* values modelled here.
float(s) ==
    LET u == Unsigned(strip(s))
        neg == strip(s) # <<>> /\ strip(s)[1] = "-"
    IN  IF lower(u) \in SpecialFloats
        THEN [ok |-> TRUE,
              kind |-> IF lower(u) = <<"n", "a", "n">> THEN "nan" ELSE "inf",
              neg |-> neg, num |-> 0, den |-> 1]
        ELSE IF IsDecimal(u)
        THEN [ok |-> TRUE, kind |-> "fin", neg |-> neg,
              num |-> NatOf(WithoutDots(u)), den |-> Pow10(FractionLen(u))]
        ELSE [ok |-> FALSE, kind |-> "fin", neg |-> FALSE,
              num |-> 0, den |-> 1]

Signed(x) == IF x.neg THEN 0 - x.num ELSE x.num

Rank(x) == IF x.kind = "inf" THEN (IF x.neg THEN -1 ELSE 1) ELSE 0

\* x < y and x == y on floats; every comparison with nan is false.
FloatLess(x, y) ==
    /\ x.kind # "nan" /\ y.kind # "nan"
    /\ \/ Rank(x) < Rank(y)
       \/ /\ Rank(x) = 0 /\ Rank(y) = 0
          /\ Signed(x) * y.den < Signed(y) * x.den

FloatEqual(x, y) ==
    /\ x.kind # "nan" /\ y.kind # "nan"
    /\ \/ Rank(x) = Rank(y) /\ Rank(x) # 0
       \/ /\ Rank(x) = 0 /\ Rank(y) = 0
          /\ Signed(x) * y.den = Signed(y) * x.den

\* --------------------------------------------------------------- terms
S_empty == <<"=", "e", "m", "p", "t", "y">>
S_not_empty == <<"!", "=", "e", "m", "p", "t", "y">>
S_none == <<"n", "o", "n", "e">>
S_null == <<"n", "u", "l", "l">>
S_tunnels_ == <<"t", "u", "n", "n", "e", "l", "s", "_">>

\* The operators group 1 of the pattern ([<>]?=?) can take.
Operators ==
    {<<>>, <<"<">>, <<">">>, <<"=">>, <<"<", "=">>, <<">", "=">>}

RECURSIVE SkipSpaces(_)
SkipSpaces(s) ==
    IF s # <<>> /\ IsSpace(s[1]) THEN SkipSpaces(Tail(s)) ELSE s

\* Group 2 of the pattern: \-?\d+(\.\d+)?
IsTargetNumber(u) ==
    LET body == IF u # <<>> /\ u[1] = "-" THEN Tail(u) ELSE u
    IN  /\ body # <<>>
        /\ IsDecimal(body)
        /\ IsDigit(body[1])
        /\ IsDigit(body[Len(body)])

MatchesWith(kw, op) ==
    /\ startswith(kw, op)
    /\ IsTargetNumber(SkipSpaces(SubSeq(kw, Len(op) + 1, Len(kw))))

\* Lines 237 and 263: re.match(r'([<>]?=?)\s*(\-?\d+(\.\d+)?)$', kw); the
\* number cannot begin with an operator character, so at most one operator
\* lets the rest match.
num_match(kw) ==
    IF \E op \in Operators : MatchesWith(kw, op)
    THEN LET op == CHOOSE o \in Operators : MatchesWith(kw, o)
         IN  [matched |-> TRUE, operator |-> op,
              target_num_str |->
                  SkipSpaces(SubSeq(kw, Len(op) + 1, Len(kw)))]
    ELSE [matched |-> FALSE, operator |-> <<>>, target_num_str |-> <<>>]

\* Faulty variant of Compare: ">" also accepts equal numbers.
Compare_gt_or_equal(operator, actual_num, target_num) ==
    CASE operator = <<">">> ->
            FloatLess(target_num, actual_num)
                \/ FloatEqual(actual_num, target_num)
      [] operator = <<"<">> -> FloatLess(actual_num, target_num)
      [] operator = <<">", "=">> ->
            FloatLess(target_num, actual_num)
                \/ FloatEqual(actual_num, target_num)
      [] operator = <<"<", "=">> ->
            FloatLess(actual_num, target_num)
                \/ FloatEqual(actual_num, target_num)
      [] OTHER -> FloatEqual(actual_num, target_num)

\* Lines 244-253 and 270-279: actual_num <operator> target_num, "=" when
\* the operator is "=" or missing.
Compare(operator, actual_num, target_num) ==
    CASE operator = <<">">> -> FloatLess(target_num, actual_num)
      [] operator = <<"<">> -> FloatLess(actual_num, target_num)
      [] operator = <<">", "=">> ->
            FloatLess(target_num, actual_num)
                \/ FloatEqual(actual_num, target_num)
      [] operator = <<"<", "=">> ->
            FloatLess(actual_num, target_num)
                \/ FloatEqual(actual_num, target_num)
      [] OTHER -> FloatEqual(actual_num, target_num)

\* ------------------------------------------------------- source value
\* source_value_raw and a criterion's key are None or a str.
None == [none |-> TRUE, s |-> <<>>]

Str(s) == [none |-> FALSE, s |-> s]

\* Python truth of an optional str: not None and not "".
Truthy(x) == ~x.none /\ x.s # <<>>

\* "if x and x.strip()"
NonBlank(x) == Truthy(x) /\ strip(x.s) # <<>>

\* Line 174 and 185: the text is "none" or "null" once stripped and
\* lower-cased.
IsNoneText(s) == lower(strip(s)) \in {S_none, S_null}

\* Lines 168-176: a key beginning with "tunnels_" reads every flattened
\* path that begins with "tunnels_" and ends with "_" + sub_key.
ResolveTunnels(key_name, flattened) ==
    LET sub_key == SubSeq(key_name, Len(S_tunnels_) + 1, Len(key_name))
        relevant_keys ==
            SelectSeq(Keys(flattened),
                      LAMBDA k : startswith(k, S_tunnels_)
                                 /\ endswith(k, sep \o sub_key))
        texts == [i \in 1..Len(relevant_keys) |->
                     py_str(GetItem(flattened, relevant_keys[i]))]
        source_values == SelectSeq(texts, LAMBDA s : ~IsNoneText(s))
    IN  IF relevant_keys # <<>>
        THEN [source_key_found |-> TRUE,
              source_value_raw |-> Str(join(<<",">>, source_values))]
        ELSE [source_key_found |-> FALSE, source_value_raw |-> None]

\* Faulty variant of ResolveExact: the texts "none" and "null" are kept as
\* values.
ResolveExact_keeps_none_text(key_name, flattened) ==
    IF HasKey(flattened, key_name)
    THEN LET value == GetItem(flattened, key_name)
         IN  [source_key_found |-> TRUE,
              source_value_raw |->
                  IF value.t # "null"
                  THEN Str(lower(strip(py_str(value))))
                  ELSE None]
    ELSE [source_key_found |-> FALSE, source_value_raw |-> None]

\* Lines 178-186: an exact key reads its own flattened path; a value that
\* is None, or whose text is "none" or "null", leaves source_value_raw None.
ResolveExact(key_name, flattened) ==
    IF HasKey(flattened, key_name)
    THEN LET value == GetItem(flattened, key_name)
         IN  [source_key_found |-> TRUE,
              source_value_raw |->
                  IF value.t # "null" /\ ~IsNoneText(py_str(value))
                  THEN Str(lower(strip(py_str(value))))
                  ELSE None]
    ELSE [source_key_found |-> FALSE, source_value_raw |-> None]

\* Lines 164-190.  key_name.startswith on a key that is None raises
\* AttributeError, so the branch of the general search is reached only by
\* an empty str.
Resolve(key_name, flattened, line) ==
    IF key_name.none
    THEN [raises |-> TRUE, source_key_found |-> FALSE,
          source_value_raw |-> None]
    ELSE LET r == IF startswith(key_name.s, S_tunnels_)
                  THEN ResolveTunnels(key_name.s, flattened)
                  ELSE IF key_name.s # <<>>
                  THEN ResolveExact(key_name.s, flattened)
                  ELSE [source_key_found |-> TRUE,
                        source_value_raw |-> Str(lower(line))]
         IN  [raises |-> FALSE, source_key_found |-> r.source_key_found,
              source_value_raw |-> r.source_value_raw]

\* ------------------------------------------------- keywords of a criterion
\* Faulty variant of EmptyKeywordsAnd: "!=empty" is satisfied by any value
\* that was found, blank or not.
EmptyKeywordsAnd_found_not_empty(kws, source_value_raw) ==
    \A i \in 1..Len(kws) :
        IF kws[i] = S_empty
        THEN ~NonBlank(source_value_raw)
        ELSE IF kws[i] = S_not_empty
        THEN ~source_value_raw.none
        ELSE ~(~Truthy(source_value_raw)
               \/ ~Contains(kws[i], source_value_raw.s))

\* Lines 197-211: the keywords of a criterion that holds "=empty" or
\* "!=empty", all of them required.  The source value is used as resolved.
EmptyKeywordsAnd(kws, source_value_raw) ==
    \A i \in 1..Len(kws) :
        IF kws[i] = S_empty
        THEN ~NonBlank(source_value_raw)
        ELSE IF kws[i] = S_not_empty
        THEN ~(~Truthy(source_value_raw) \/ strip(source_value_raw.s) = <<>>)
        ELSE ~(~Truthy(source_value_raw)
               \/ ~Contains(kws[i], source_value_raw.s))

\* Faulty variant of EmptyKeywordsOr: "!=empty" is satisfied by any value
\* that was found, blank or not.
EmptyKeywordsOr_found_not_empty(kws, source_value_raw) ==
    \E i \in 1..Len(kws) :
        IF kws[i] = S_empty
        THEN ~Truthy(source_value_raw) \/ strip(source_value_raw.s) = <<>>
        ELSE IF kws[i] = S_not_empty
        THEN ~source_value_raw.none
        ELSE Truthy(source_value_raw) /\ Contains(kws[i], source_value_raw.s)


\* Lines 213-227: the same keywords, any of them enough.
EmptyKeywordsOr(kws, source_value_raw) ==
    \E i \in 1..Len(kws) :
        IF kws[i] = S_empty
        THEN ~Truthy(source_value_raw) \/ strip(source_value_raw.s) = <<>>
        ELSE IF kws[i] = S_not_empty
        THEN NonBlank(source_value_raw)
        ELSE Truthy(source_value_raw) /\ Contains(kws[i], source_value_raw.s)

\* Faulty variant of KeywordHolds: a keyword is looked for at the beginning
\* of the source value only.
KeywordHolds_prefix_only(kw, source) ==
    LET m == num_match(kw)
    IN  IF m.matched
        THEN /\ float(source).ok
             /\ Compare(m.operator, float(source), float(m.target_num_str))
        ELSE startswith(source, kw)

\* Lines 237-258 and 263-284, for one keyword: a keyword the pattern
\* matches is compared as a number, and a source value float() rejects
\* (ValueError) makes it false; any other keyword is looked for in the
\* source value.
KeywordHolds(kw, source) ==
    LET m == num_match(kw)
    IN  IF m.matched
        THEN /\ float(source).ok
             /\ Compare(m.operator, float(source), float(m.target_num_str))
        ELSE Contains(kw, source)

\* Lines 234-258: every keyword holds.
StandardKeywordsAnd(kws, source) ==
    \A i \in 1..Len(kws) : KeywordHolds(kws[i], source)

\* Lines 260-284: some keyword holds.
StandardKeywordsOr(kws, source) ==
    \E i \in 1..Len(kws) : KeywordHolds(kws[i], source)

\* Lines 192-286: current_kws_match_status of one criterion.
KeywordsMatch(kws, match_type_keywords, source_value_raw) ==
    IF \E i \in 1..Len(kws) : kws[i] \in {S_empty, S_not_empty}
    THEN (IF match_type_keywords = "AND"
          THEN EmptyKeywordsAnd(kws, source_value_raw)
          ELSE EmptyKeywordsOr(kws, source_value_raw))
    ELSE IF Truthy(source_value_raw)
    THEN (IF match_type_keywords = "AND"
          THEN StandardKeywordsAnd(kws, lower(source_value_raw.s))
          ELSE StandardKeywordsOr(kws, lower(source_value_raw.s)))
    ELSE FALSE

\* Lines 156-288, one criterion on one line: whether it raises, and its
\* current_kws_match_status.
EvaluateCriterion(criterion, obj, line) ==
    IF obj.t # "dict"
    THEN [raises |-> TRUE, status |-> FALSE]
    ELSE LET r == Resolve(criterion.key, flatten_json(obj, <<>>), line)
         IN  IF r.raises
             THEN [raises |-> TRUE, status |-> FALSE]
             ELSE [raises |-> FALSE,
                   status |-> KeywordsMatch(criterion.keywords,
                                            criterion.match_type_keywords,
                                            r.source_value_raw)]

\* Lines 290-295.
CombineResults(match_type, criterion_results_) ==
    IF match_type = "AND"
    THEN \A i \in 1..Len(criterion_results_) : criterion_results_[i]
    ELSE IF match_type = "OR"
    THEN \E i \in 1..Len(criterion_results_) : criterion_results_[i]
    ELSE FALSE

\* ------------------------------------------------------ lines and filters
\* json.dumps(v): the text of a line that holds the value v.
RECURSIVE json_text(_)
json_text(v) ==
    CASE v.t = "null" -> <<"n", "u", "l", "l">>
      [] v.t = "bool" -> IF v.b THEN <<"t", "r", "u", "e">>
                                 ELSE <<"f", "a", "l", "s", "e">>
      [] v.t = "int" -> str_int(v.n)
      [] v.t = "str" -> <<"\"">> \o v.s \o <<"\"">>
      [] v.t = "list" ->
            <<"[">> \o join(<<",", " ">>,
                            [i \in 1..Len(v.items) |-> json_text(v.items[i])])
                    \o <<"]">>
      [] v.t = "dict" ->
            <<"{">> \o join(<<",", " ">>,
                            [i \in 1..Len(v.items) |->
                                <<"\"">> \o v.items[i].k \o <<"\"", ":", " ">>
                                    \o json_text(v.items[i].v)])
                    \o <<"}">>

K_a == <<"a">>
K_b == <<"b">>
K_a_b == <<"a", "_", "b">>
K_a_0_b == <<"a", "_", "0", "_", "b">>
K_tunnels == <<"t", "u", "n", "n", "e", "l", "s">>
K_tunnels_b == S_tunnels_ \o K_b

T_foo == <<"f", "o", "o">>
T_bar == <<"b", "a", "r">>
T_BAR == <<"B", "A", "R">>
T_not_bar == <<"!", "b", "a", "r">>
T_on == <<"o", "n">>
T_x == <<"x">>
T_y == <<"y">>
T_EMPTY == <<"=", "E", "M", "P", "T", "Y">>
T_NOT_EMPTY == <<"!", "=", "E", "M", "P", "T", "Y">>
T_gt_10 == <<">", "1", "0">>
T_lt_10 == <<"<", "1", "0">>
T_ge_10 == <<">", "=", " ", "1", "0">>
T_le_10 == <<"<", "=", "1", "0">>
T_eq_10 == <<"=", "1", "0">>
T_10 == <<"1", "0">>

\* The values of the field "a" in the lines tried.
FieldValues ==
    {JStr(T_foo), JStr(T_bar), JStr(<<"F", "o", "o", "B", "a", "r">>),
     JStr(<<"n", "o", "n", "e">>), JStr(<<"N", "U", "L", "L">>),
     JStr(<<>>), JStr(<<" ">>), JNull, JBool(TRUE),
     JInt(15), JInt(5), JInt(10), JStr(<<"1", "5">>),
     JStr(<<"1", "0", ".", "0">>), JStr(<<" ", "5">>)}

ObjXY == JList(<<JDict(<<Entry(K_b, JStr(T_x))>>),
                 JDict(<<Entry(K_b, JStr(T_y))>>)>>)

\* The parsed values of the lines tried.
Records ==
    {JDict(<<Entry(K_a, v)>>) : v \in FieldValues}
    \cup {JDict(<<Entry(K_b, JStr(T_foo))>>),
          JDict(<<Entry(K_a, ObjXY)>>),
          JDict(<<Entry(K_tunnels, ObjXY)>>),
          JDict(<<Entry(K_tunnels,
                        JList(<<JDict(<<Entry(K_b, JStr(T_x))>>),
                                JDict(<<Entry(K_b, JStr(S_none))>>),
                                JDict(<<Entry(K_b, JStr(<<"Y">>))>>)>>))>>),
          JDict(<<Entry(K_tunnels,
                        JDict(<<Entry(<<"q">>,
                                      JDict(<<Entry(K_b, JStr(T_x))>>))>>))>>),
          JDict(<<Entry(K_a, JList(<<JInt(1), JInt(2), JInt(3)>>))>>),
          JDict(<<Entry(K_a, JList(<<JDict(<<Entry(K_b, JInt(1))>>),
                                     JDict(<<Entry(K_b, JInt(2))>>)>>))>>),
          JDict(<<Entry(K_a, JList(<<JInt(1),
                                     JDict(<<Entry(K_b, JInt(2))>>)>>))>>),
          JDict(<<Entry(K_a, JInt(1))>>),
          JInt(15),
          JStr(T_foo),
          JList(<<JDict(<<Entry(K_a, JStr(T_foo))>>)>>)}

\* What the user answers for one filter condition: the key typed (None for
\* "Filter by a specific key? N"), the keywords typed between commas, and
\* the answer to "Match ALL keywords (AND) or ANY keyword (OR)".
UserKeys == {Str(K_a), Str(K_a_b), Str(K_a_0_b), Str(K_tunnels_b), None}

TypedKeywords ==
    {<<t>> : t \in {T_foo, T_BAR, T_not_bar, T_on, T_x, T_EMPTY, T_NOT_EMPTY,
                    T_gt_10, T_lt_10, T_ge_10, T_le_10, T_eq_10, T_10}}
    \cup {<<T_foo, T_not_bar>>, <<T_foo, T_BAR>>, <<T_x, T_y>>,
          <<T_NOT_EMPTY, T_gt_10>>, <<T_EMPTY, T_foo>>}

UserEntries ==
    {[key |-> k, typed |-> ts, choice |-> c] :
        k \in UserKeys, ts \in TypedKeywords, c \in {"AND", "OR"}}

\* Line 734: [kw.strip().lower() for kw in input.split(',') if kw.strip()]
current_keywords(typed) ==
    LET kept == SelectSeq(typed, LAMBDA kw : strip(kw) # <<>>)
    IN  [i \in 1..Len(kept) |-> lower(strip(kept[i]))]

\* Lines 743-759: the criterion added for an entry; the match type is
\* asked only for more than one keyword.
Criterion(entry) ==
    [key |-> entry.key,
     keywords |-> current_keywords(entry.typed),
     match_type_keywords |->
         IF Len(current_keywords(entry.typed)) > 1
         THEN entry.choice ELSE "AND"]

AllCriteria == {Criterion(e) : e \in UserEntries}

\* The conditions combined with another one in the filters of two criteria.
PairedCriteria ==
    {Criterion([key |-> k, typed |-> <<t>>, choice |-> "AND"]) :
        k \in {Str(K_a), Str(K_tunnels_b), None},
        t \in {T_foo, T_x, T_gt_10}}

\* Lines 770-777: the overall match type is asked only for more than one
\* criterion and is "AND" otherwise.
Filters ==
    {[criteria |-> <<>>, overall |-> "AND"]}
    \cup {[criteria |-> <<c>>, overall |-> "AND"] : c \in AllCriteria}
    \cup {[criteria |-> <<c, d>>, overall |-> o] :
              c \in PairedCriteria, d \in PairedCriteria, o \in {"AND", "OR"}}

\* ------------------------------------------------------- the evaluation
\* No run of the chunked engine is under way.
RunIdle ==
    /\ script = "spurfeedmultifilter"
    /\ file = <<>>
    /\ trailingNL = FALSE
    /\ num_chunks = 1
    /\ pc = "plan"
    /\ chunks = <<>>
    /\ wpc = [w \in 1..1 |-> "idle"]
    /\ fpos = [w \in 1..1 |-> 0]
    /\ current_byte = [w \in 1..1 |-> 0]
    /\ matching_objects = [w \in 1..1 |-> <<>>]
    /\ results = <<>>
    /\ received = {}
    /\ in_chunk = 0
    /\ wi = 1
    /\ outfile = <<>>
    /\ records_exported_count = 0
    /\ msgs = {}

engineVars == <<script, file, trailingNL, num_chunks, pc, chunks, wpc, fpos,
                current_byte, matching_objects, results, received, in_chunk,
                wi, outfile, records_exported_count, msgs>>

runVars == <<engineVars, lineVars>>

\* __main__ has collected the criteria and a worker is about to handle one
\* line that parses.
FilterInit ==
    /\ RunIdle
    /\ json_obj \in Records
    /\ line_stripped = json_text(json_obj)
    /\ \E f \in Filters :
           /\ filter_criteria = f.criteria
           /\ overall_match_type = f.overall
    /\ epc = "built"
    /\ flattened_obj = <<>>
    /\ criterion_results = <<>>
    /\ appended = FALSE
    /\ LinesIdle

\* Lines 779-808: without criteria nothing is filtered: the source file is
\* named as the output and the script exits before any chunk is planned.
NoFilterExit ==
    /\ epc = "built"
    /\ filter_criteria = <<>>
    /\ epc' = "exited"
    /\ UNCHANGED <<runVars, line_stripped, json_obj, filter_criteria,
                   overall_match_type, flattened_obj, criterion_results,
                   appended>>

\* Lines 151-152: the worker has read the line and json.loads returned.
LoadLine ==
    /\ epc = "built"
    /\ filter_criteria # <<>>
    /\ epc' = "criteria"
    /\ UNCHANGED <<runVars, line_stripped, json_obj, filter_criteria,
                   overall_match_type, flattened_obj, criterion_results,
                   appended>>

\* Lines 156-288: one pass of "for criterion in filter_criteria".  An
\* exception leaves the try block through "except Exception: pass".
EvalCriterion ==
    /\ epc = "criteria"
    /\ Len(criterion_results) < Len(filter_criteria)
    /\ LET r == EvaluateCriterion(filter_criteria[Len(criterion_results) + 1],
                                  json_obj, line_stripped)
       IN  /\ flattened_obj' = IF json_obj.t = "dict"
                               THEN flatten_json(json_obj, <<>>)
                               ELSE flattened_obj
           /\ IF r.raises
              THEN /\ epc' = "raised"
                   /\ UNCHANGED criterion_results
              ELSE /\ criterion_results' = Append(criterion_results, r.status)
                   /\ UNCHANGED epc
    /\ UNCHANGED <<runVars, line_stripped, json_obj, filter_criteria,
                   overall_match_type, appended>>

\* Lines 290-298: final_match and the append to matching_objects.
FinalMatch ==
    /\ epc = "criteria"
    /\ Len(criterion_results) = Len(filter_criteria)
    /\ appended' = CombineResults(overall_match_type, criterion_results)
    /\ epc' = "done"
    /\ UNCHANGED <<runVars, line_stripped, json_obj, filter_criteria,
                   overall_match_type, flattened_obj, criterion_results>>

FilterNext ==
    \/ NoFilterExit
    \/ LoadLine
    \/ EvalCriterion
    \/ FinalMatch

FilterSpec == FilterInit /\ [][FilterNext]_vars

\* ======================================================================
\* The chunking by line index of serviceMetrics-customfilter.py (lines
\* 267-285) and the lines a task reads back from its chunk (lines 97-106).
\* ======================================================================
\* Most lines of the content and most parallel processors tried.
MaxLines == 5
MaxProcessors == 4

\* The texts of the lines of the content: an empty line and two records.
LineTexts == {<<>>, <<"a">>, <<"b">>}

RECURSIVE splitlines(_)
\* str.splitlines() of a text whose only line boundary is "\n": the text
\* between the boundaries, without a last empty piece.
splitlines(s) ==
    IF s = <<>>
    THEN <<>>
    ELSE LET boundaries == {i \in 1..Len(s) : s[i] = "\n"}
         IN  IF boundaries = {}
             THEN <<s>>
             ELSE LET b == CHOOSE i \in boundaries :
                               \A j \in boundaries : i <= j
                  IN  <<SubSeq(s, 1, b - 1)>>
                          \o splitlines(SubSeq(s, b + 1, Len(s)))

\* Faulty variant of ChunkSizeLines: the quotient is rounded down.
ChunkSizeLines_rounded_down(total_lines, n) == total_lines \div n

\* Line 272: (total_lines + NUM_PARALLEL_PROCESSORS - 1) // NUM_PARALLEL_PROCESSORS
ChunkSizeLines(total_lines, n) == (total_lines + n - 1) \div n

min(a, b) == IF a <= b THEN a ELSE b

\* content_lines[start_line_idx:end_line_idx], indices counted from 0.
Slice(lines, start_line_idx, end_line_idx) ==
    SubSeq(lines, start_line_idx + 1, end_line_idx)

\* Lines 103-106: the lines of a chunk its task goes on to parse.
HandledLines(chunk_content) ==
    SelectSeq(splitlines(chunk_content), LAMBDA line : strip(line) # <<>>)

\* The content has been split into lines (line 270).
ChunkInit ==
    /\ RunIdle
    /\ EvalIdle
    /\ NUM_PARALLEL_PROCESSORS \in 1..MaxProcessors
    /\ \E n \in 0..MaxLines : content_lines \in [1..n -> LineTexts]
    /\ chunk_size_lines = 0
    /\ li = 0
    /\ chunks_data = <<>>
    /\ lpc = "lines"
    /\ seen = <<>>

\* Lines 271-274.
ComputeChunkSize ==
    /\ lpc = "lines"
    /\ chunk_size_lines' =
           ChunkSizeLines(Len(content_lines), NUM_PARALLEL_PROCESSORS)
    /\ chunks_data' = <<>>
    /\ li' = 0
    /\ lpc' = "chunking"
    /\ UNCHANGED <<engineVars, evalVars, NUM_PARALLEL_PROCESSORS,
                   content_lines, seen>>

\* Lines 275-279: one pass of "for i in range(NUM_PARALLEL_PROCESSORS)".
BuildChunk ==
    /\ lpc = "chunking"
    /\ li < NUM_PARALLEL_PROCESSORS
    /\ LET start_line_idx == li * chunk_size_lines
           end_line_idx == min((li + 1) * chunk_size_lines, Len(content_lines))
       IN  chunks_data' =
               IF start_line_idx < end_line_idx
               THEN Append(chunks_data,
                           [start_line_idx |-> start_line_idx,
                            end_line_idx |-> end_line_idx,
                            text |-> join(<<"\n">>,
                                          Slice(content_lines, start_line_idx,
                                                end_line_idx))])
               ELSE chunks_data
    /\ li' = li + 1
    /\ UNCHANGED <<engineVars, evalVars, NUM_PARALLEL_PROCESSORS,
                   content_lines, chunk_size_lines, lpc, seen>>

\* Line 285: one task is submitted for each chunk of chunks_data.
SubmitChunks ==
    /\ lpc = "chunking"
    /\ li = NUM_PARALLEL_PROCESSORS
    /\ seen' = [k \in 1..Len(chunks_data) |-> [done |-> FALSE, lines |-> <<>>]]
    /\ lpc' = "submitted"
    /\ UNCHANGED <<engineVars, evalVars, NUM_PARALLEL_PROCESSORS,
                   content_lines, chunk_size_lines, li, chunks_data>>

\* process_chunk_for_filtering on chunk k: the lines it does not skip.
ProcessChunk(k) ==
    /\ lpc = "submitted"
    /\ ~seen[k].done
    /\ seen' = [seen EXCEPT ![k] = [done |-> TRUE,
                                    lines |-> HandledLines(chunks_data[k].text)]]
    /\ UNCHANGED <<engineVars, evalVars, NUM_PARALLEL_PROCESSORS,
                   content_lines, chunk_size_lines, li, chunks_data, lpc>>

ChunkNext ==
    \/ ComputeChunkSize
    \/ BuildChunk
    \/ SubmitChunks
    \/ \E k \in 1..Len(chunks_data) : ProcessChunk(k)

ChunkSpec == ChunkInit /\ [][ChunkNext]_vars

\* ======================================================================
\* Properties
\* ======================================================================
Workers == 1..num_chunks

Planned == pc # "plan"

\* The lines a worker's handle has passed since its seek.
LinesRead(w) ==
    IF wpc[w] \in {"reading", "returned"}
    THEN {i \in 1..NumLines :
            /\ LineStart(i + 1) > chunks[w].start_byte
            /\ LineStart(i) < fpos[w]}
    ELSE {}

\* The source lines that parse and satisfy the filter.
LineMatches(i) ==
    /\ JsonParses(file[i].body)
    /\ final_match(json_loads(file[i].body))

MatchingLines == {i \in 1..NumLines : LineMatches(i)}

\* No error message was printed.
NoErrors == \A m \in msgs : ~IsErrorMsg(m)

\* How many times source line i stands in the output file.
Copies(i) == Cardinality({k \in 1..Len(outfile) : outfile[k].line = i})

\* C1: once every worker has returned, every line of the file was read by
\* exactly one worker (none skipped, none read by two workers).
C1_EveryLineReadOnce ==
    (Planned /\ \A w \in Workers : wpc[w] = "returned")
        => \A i \in 1..NumLines :
               Cardinality({w \in Workers : i \in LinesRead(w)}) = 1

\* C2: after a run that finished without any error, each matching source
\* line stands in the output file exactly once, no other line stands in it,
\* and the reported count is the number of matching source lines.
C2_OutputIsTheMatchingLines ==
    (pc = "finished" /\ NoErrors)
        => /\ \A i \in 1..NumLines :
                  Copies(i) = (IF LineMatches(i) THEN 1 ELSE 0)
           /\ MsgSuccess(Cardinality(MatchingLines)) \in msgs

\* The offsets at which a line begins, with the end of the file.
LineStarts == {LineStart(i) : i \in 1..(NumLines + 1)}

\* q is the first line beginning at or after offset p (the end of the file
\* when no line begins there).
IsFirstLineStartFrom(q, p) ==
    LET starts == LineStarts
    IN  /\ q \in starts
        /\ q >= p
        /\ \A r \in starts : r >= p => q <= r

PrecededByNewline(p) ==
    \E i \in 1..NumLines :
        /\ LineStart(i + 1) = p
        /\ (i < NumLines \/ trailingNL)

OutputLineSet == {<<outfile[k].line, outfile[k].text>> : k \in 1..Len(outfile)}

\* C5: after a run that finished without any error the set of lines in the
\* output file is fixed by the source file and the filter alone, so it is
\* the same for every order in which the workers complete and are written.
C5_OutputSetIndependentOfOrder ==
    (pc = "finished" /\ NoErrors)
        => OutputLineSet
               = {<<i, json_dumps(json_loads(file[i].body))>> :
                      i \in MatchingLines}

\* A finished run without error whose output holds a line of the second
\* chunk before a line of the first chunk.
C5_Witness ==
    /\ pc = "finished"
    /\ NoErrors
    /\ \E j, k \in 1..Len(outfile) :
           /\ j < k
           /\ outfile[j].chunk > outfile[k].chunk

\* C6: in the output file the lines of one chunk form one contiguous group
\* in source order: of two output lines of the same chunk the earlier in
\* the source is the earlier in the output, and no line of another chunk
\* stands between them.
C6_ChunkGroupsInSourceOrder ==
    \A j, k \in 1..Len(outfile) :
        (j < k /\ outfile[j].chunk = outfile[k].chunk)
            => /\ outfile[j].line < outfile[k].line
               /\ \A l \in j..k : outfile[l].chunk = outfile[j].chunk

\* An output file holding two lines of one chunk and a line of another.
C6_Witness ==
    \E j, k, l \in 1..Len(outfile) :
        /\ j < k
        /\ outfile[j].chunk = outfile[k].chunk
        /\ outfile[l].chunk # outfile[j].chunk

\* The tasks whose exception the orchestrator has met.
RaisedSeen == {w \in received : wpc[w] = "raised"}

\* C7: once the orchestrator has met a worker's exception the run has
\* failed (no later result is taken or written), no success line is
\* printed, and an error message carrying the count of records processed
\* so far is printed.
C7_WorkerErrorFailsRun ==
    (RaisedSeen # {})
        => /\ pc = "failed"
           /\ \A m \in msgs : IsErrorMsg(m)
           /\ \E m \in msgs :
                  IsErrorMsg(m) /\ m.count = <<records_exported_count>>

\* C8: once a write to the output file has raised, the run has aborted: it
\* takes no later chunk and prints no success line.
C8_WriteErrorAbortsRun ==
    (\E m \in msgs : m.exc = OutputError)
        => /\ pc = "failed"
           /\ \A m \in msgs : IsErrorMsg(m)

\* C9: a line that fails to parse never enters a worker's list and does not
\* disturb the worker: the tracked offset has advanced by every line read,
\* the list is exactly the matching lines among the lines read, in source
\* order, and the worker returns only at its end_byte or at the end of the
\* file.
C9_MalformedLineIsSkipped ==
    \A w \in Workers :
        wpc[w] \in {"reading", "returned"}
            => LET objs == matching_objects[w]
                   matched == {i \in LinesRead(w) : LineMatches(i)}
               IN  /\ current_byte[w] = fpos[w]
                   /\ {objs[k].line : k \in 1..Len(objs)} = matched
                   /\ Len(objs) = Cardinality(matched)
                   /\ \A j, k \in 1..Len(objs) :
                          j < k => objs[j].line < objs[k].line
                   /\ \A k \in 1..Len(objs) :
                          file[objs[k].line].body # Malformed
                   /\ wpc[w] = "returned"
                          => \/ current_byte[w] >= chunks[w].end_byte
                             \/ fpos[w] = file_size

\* A worker that read a malformed line and, after it, a matching line that
\* is in its list.
C9_Witness ==
    \E w \in Workers :
        \E i, j \in LinesRead(w) :
            /\ i < j
            /\ file[i].body = Malformed
            /\ \E k \in 1..Len(matching_objects[w]) :
                   matching_objects[w][k].line = j

IsCanonical(text) == text \in {CanonMatch, CanonOther}

WorkerStep(w) == WorkerOpen(w) \/ WorkerReadLine(w) \/ WorkerRaise(w)

\* C21: the output file is written by the orchestrator only.  A step of a
\* worker leaves the output file and its count, the source file and the
\* filter as they are and changes no other worker's handle, offset or list;
\* a step that changes the output file is a step of the write loop and
\* changes no worker.
C21_OnlyOrchestratorWrites ==
    [][/\ \A w \in Workers :
              WorkerStep(w)
                  => /\ UNCHANGED <<outfile, records_exported_count>>
                     /\ UNCHANGED <<file, trailingNL, filter_criteria,
                                    overall_match_type>>
                     /\ \A v \in Workers \ {w} :
                            /\ wpc'[v] = wpc[v]
                            /\ fpos'[v] = fpos[v]
                            /\ current_byte'[v] = current_byte[v]
                            /\ matching_objects'[v] = matching_objects[v]
       /\ (outfile' # outfile \/ records_exported_count' # records_exported_count)
              => /\ pc = "write"
                 /\ UNCHANGED workerVars]_vars

\* A line has been written to the output file while a worker that has
\* already read a line is still reading, next to a second worker.
C21_Witness ==
    /\ Len(outfile) > 0
    /\ num_chunks > 1
    /\ \E w \in Workers :
           /\ wpc[w] = "reading"
           /\ fpos[w] > chunks[w].start_byte


\* Every task has completed and the orchestrator has received every result.
AllReceived ==
    /\ received = Workers
    /\ \A w \in Workers : wpc[w] \in {"returned", "raised"}

\* C22: under fair scheduling every worker's read loop ends and the run
\* reaches its finished state with the result of every planned chunk
\* received; the only other end of a run is the failure that follows the
\* exception of a worker.
C22_RunTerminates ==
    /\ [](pc = "failed" => RaisedSeen # {})
    /\ <>(\/ pc = "finished" /\ AllReceived
          \/ pc = "failed")

\* A finished run of two workers that both read the file to its end.
C22_Witness ==
    /\ pc = "finished"
    /\ AllReceived
    /\ num_chunks > 1
    /\ \A w \in Workers : wpc[w] = "returned" /\ fpos[w] = file_size
    /\ file_size > 0


\* C23: every range the planner returns, and so every range dispatched to a
\* worker, is non-empty: its start_byte is below its end_byte.
C23_RangesNonEmpty ==
    Planned
        => \A i \in Workers : chunks[i].start_byte < chunks[i].end_byte


RECURSIVE ReturnedTotal(_)
\* The sum of the lengths of the lists the workers 1..n returned.
ReturnedTotal(n) ==
    IF n = 0
    THEN 0
    ELSE ReturnedTotal(n - 1)
             + (IF wpc[n] = "returned" THEN Len(matching_objects[n]) ELSE 0)

\* C24: the running count is the number of lines appended to the output
\* file so far, and once the run has finished it is the sum of the lengths
\* of all the lists the workers returned.
C24_CountIsLinesWritten ==
    /\ records_exported_count = Len(outfile)
    /\ pc = "finished" => records_exported_count = ReturnedTotal(num_chunks)


\* C28: after each line read, the offset a worker tracks is the true
\* position of its handle in the file, the start of its range plus the
\* bytes consumed, whatever the text of the lines, so that the test
\* current_byte >= end_byte compares file offsets.
C28_TrackedOffsetIsFilePosition ==
    \A w \in Workers :
        wpc[w] \in {"reading", "returned"} => current_byte[w] = fpos[w]


\* C29: for consecutive planned ranges, the first of them non-empty, the
\* offset at which the worker of the first stops reading is the start_byte
\* of the second: the last line the one reads is the line just before the
\* first line the other reads.
C29_WorkerStopsAtNextStart ==
    Planned
        => \A i \in 1..(num_chunks - 1) :
               (/\ wpc[i] = "returned"
                /\ chunks[i].start_byte < chunks[i].end_byte)
                   => fpos[i] = chunks[i + 1].start_byte


\* ======================================================================
\* Properties of the filter on one line
\* ======================================================================
\* The handling of the line is over: the script exited, the line was
\* decided, or an exception ended its try block.
Handled == epc \in {"exited", "done", "raised"}

\* The boolean criterion i gives on the line when it is evaluated alone
\* (false when its evaluation raises).
CriterionAlone(i) ==
    EvaluateCriterion(filter_criteria[i], json_obj, line_stripped).status

\* C11: with zero criteria every parseable record is matched, so that the
\* record of the line handled has been added to the output.
C11_ZeroCriteriaMatchEverything ==
    (Handled /\ filter_criteria = <<>>) => appended

\* C12: with one or more criteria the decision on a record is the AND
\* (criteria mode AND) or the OR (criteria mode OR) of what the criteria
\* give one by one; under OR one true criterion is enough.
C12_DecisionCombinesCriteria ==
    (Handled /\ filter_criteria # <<>>)
        => appended =
               (IF overall_match_type = "AND"
                THEN \A i \in 1..Len(filter_criteria) : CriterionAlone(i)
                ELSE \E i \in 1..Len(filter_criteria) : CriterionAlone(i))

\* The filter is a single criterion on the exact key "a" or "a_0_b" and
\* the line, a JSON object, has been decided.
OneCriterion == Len(filter_criteria) = 1

TheCriterion == filter_criteria[1]

ExactKeys == {Str(K_a), Str(K_a_0_b)}

DecidedOnExactKey ==
    /\ epc = "done"
    /\ OneCriterion
    /\ TheCriterion.key \in ExactKeys

\* The field the exact key names is in the record, and its value.
FieldPresent == HasKey(flatten_json(json_obj, <<>>), TheCriterion.key.s)

FieldValue == GetItem(flatten_json(json_obj, <<>>), TheCriterion.key.s)

\* The value's text, case folded.
FieldText == lower(py_str(FieldValue))

\* A keyword that is neither a sentinel, nor a number, nor "!"-prefixed.
IsPlain(kw) ==
    /\ kw \notin {S_empty, S_not_empty}
    /\ ~num_match(kw).matched
    /\ kw[1] # "!"

AllPlain == \A i \in 1..Len(TheCriterion.keywords) : IsPlain(TheCriterion.keywords[i])

\* The AND or the OR, by the criterion's term mode, of P over its keywords.
OverKeywords(P(_)) ==
    IF TheCriterion.match_type_keywords = "AND"
    THEN \A i \in 1..Len(TheCriterion.keywords) : P(TheCriterion.keywords[i])
    ELSE \E i \in 1..Len(TheCriterion.keywords) : P(TheCriterion.keywords[i])

IsNoneValue(v) ==
    v.t = "null" \/ lower(strip(py_str(v))) \in {S_none, S_null}

C14_GeneralSearchReadsTheLine ==
    (/\ Handled
     /\ OneCriterion
     /\ TheCriterion.key = None
     /\ AllPlain
     /\ json_obj.t = "dict")
        => appended = OverKeywords(LAMBDA kw : Contains(kw, lower(line_stripped)))

\* The wildcard selector prefix_suffix, cut at its first "_".
FirstSep(s) == CHOOSE i \in 1..Len(s) : s[i] = "_" /\ \A j \in 1..(i - 1) : s[j] # "_"

Prefix(s) == SubSeq(s, 1, FirstSep(s) - 1)

Suffix(s) == SubSeq(s, FirstSep(s) + 1, Len(s))

\* k is prefix_<digits>_suffix.
IsIndexedPath(k, prefix, suffix) ==
    LET from == Len(prefix) + 2
        to == Len(k) - Len(suffix) - 1
    IN  /\ from <= to
        /\ startswith(k, prefix \o sep)
        /\ endswith(k, sep \o suffix)
        /\ \A i \in from..to : IsDigit(k[i])

\* The values at the indexed paths of a wildcard selector, in path order,
\* without those that read "none" or "null".
WildcardValues(selector, flattened) ==
    LET paths == SelectSeq(Keys(flattened),
                           LAMBDA k : IsIndexedPath(k, Prefix(selector),
                                                    Suffix(selector)))
        texts == [i \in 1..Len(paths) |-> py_str(GetItem(flattened, paths[i]))]
    IN  [found |-> paths # <<>>,
         value |-> join(<<",">>,
                        SelectSeq(texts,
                                  LAMBDA s : lower(strip(s))
                                                 \notin {S_none, S_null}))]

WildcardKeys == {Str(K_a_b), Str(K_tunnels_b)}

\* C15: a wildcard selector prefix_suffix resolves to the comma-join of the
\* values at the paths prefix_<digits>_suffix, "none" and "null" skipped,
\* and to not-found without such a path: a plain term on it is true iff
\* such a path exists and the term occurs in the join.
C15_WildcardResolvesIndexedPaths ==
    (/\ epc = "done"
     /\ OneCriterion
     /\ TheCriterion.key \in WildcardKeys
     /\ AllPlain)
        => LET r == WildcardValues(TheCriterion.key.s,
                                   flatten_json(json_obj, <<>>))
           IN  appended =
                   (r.found
                    /\ OverKeywords(LAMBDA kw : Contains(kw, lower(r.value))))

\* The single keyword of the criterion is kw.
OnlyKeyword(kw) == TheCriterion.keywords = <<kw>>

\* The field is found with a text that has a non-blank character.
FieldNonBlank ==
    FieldPresent /\ FieldValue.t # "null" /\ strip(py_str(FieldValue)) # <<>>

WithKeyword(kw, mode) ==
    EvaluateCriterion([TheCriterion EXCEPT !.keywords = <<kw>>,
                                           !.match_type_keywords = mode],
                      json_obj, line_stripped).status

\* =EMPTY and !=EMPTY are not both true of the line, in either term mode.
NeverBoth ==
    \A mode \in {"AND", "OR"} :
        ~(WithKeyword(S_empty, mode) /\ WithKeyword(S_not_empty, mode))

C18_NegatedTermInverts ==
    (DecidedOnExactKey /\ FieldPresent /\ ~IsNoneValue(FieldValue))
        => /\ (TheCriterion.keywords = <<T_foo, T_not_bar>>
                   /\ TheCriterion.match_type_keywords = "AND"
                   => appended = (Contains(T_foo, FieldText)
                                  /\ ~Contains(T_bar, FieldText)))
           /\ (OnlyKeyword(T_not_bar)
                   => appended = ~Contains(T_bar, FieldText))

\* The number a field value writes, for the values tried: an int, or a str
\* that spells one; NoNumber for every other value.
NoNumber == <<>>

NumberOf(v) ==
    CASE v = JInt(15) \/ v = JStr(<<"1", "5">>) -> <<15>>
      [] v = JInt(10) \/ v = JStr(<<"1", "0", ".", "0">>) -> <<10>>
      [] v = JInt(5) \/ v = JStr(<<" ", "5">>) -> <<5>>
      [] v = JInt(1) -> <<1>>
      [] OTHER -> NoNumber

\* The numeric terms tried all compare with 10.
NumericTerms ==
    {lower(strip(t)) : t \in {T_gt_10, T_lt_10, T_ge_10, T_le_10, T_eq_10, T_10}}

\* n <op> 10 for the operator the term kw carries.
TermHoldsOf(kw, n) ==
    CASE kw = lower(strip(T_gt_10)) -> n > 10
      [] kw = lower(strip(T_lt_10)) -> n < 10
      [] kw = lower(strip(T_ge_10)) -> n >= 10
      [] kw = lower(strip(T_le_10)) -> n <= 10
      [] OTHER -> n = 10

\* C19: a numeric term on a source value that writes a number is true iff
\* value <op> term holds ("=" without operator); on a source value that
\* writes no number it is false, and no error is raised.
C19_NumericTermCompares ==
    (/\ Handled
     /\ OneCriterion
     /\ TheCriterion.key \in ExactKeys
     /\ json_obj.t = "dict"
     /\ Len(TheCriterion.keywords) = 1
     /\ TheCriterion.keywords[1] \in NumericTerms
     /\ FieldPresent)
        => LET holds == /\ NumberOf(FieldValue) # NoNumber
                        /\ TermHoldsOf(TheCriterion.keywords[1],
                                       NumberOf(FieldValue)[1])
           IN  /\ epc = "done"
               /\ appended = holds
               /\ \A mode \in {"AND", "OR"} :
                      WithKeyword(TheCriterion.keywords[1], mode) = holds

\* ">10" has matched the value 15.
C19_Witness ==
    /\ DecidedOnExactKey
    /\ OnlyKeyword(T_gt_10)
    /\ FieldPresent
    /\ FieldValue = JStr(<<"1", "5">>)
    /\ appended

\* The records of the two examples of flattening a list.
ListOfScalars == JDict(<<Entry(K_a, JList(<<JInt(1), JInt(2), JInt(3)>>))>>)

ListOfObjects ==
    JDict(<<Entry(K_a, JList(<<JDict(<<Entry(K_b, JInt(1))>>),
                               JDict(<<Entry(K_b, JInt(2))>>)>>))>>)

Flattened == epc \in {"criteria", "done"} /\ criterion_results # <<>>

RECURSIVE Scalars(_)
Scalars(v) ==
    IF v.t = "list"
    THEN UNION {Scalars(v.items[i]) : i \in 1..Len(v.items)}
    ELSE IF v.t = "dict"
    THEN UNION {Scalars(v.items[i].v) : i \in 1..Len(v.items)}
    ELSE {v}

DecidedOnSeveralKeywords ==
    /\ epc = "done"
    /\ OneCriterion
    /\ ~TheCriterion.key.none
    /\ Len(TheCriterion.keywords) > 1

\* C25: the result of a criterion of several terms is the AND or the OR, by
\* its term mode, of what each term gives alone on the same source value;
\* so a numeric term gives the same with or without a sentinel beside it.
C25_TermsCombineIndependently ==
    DecidedOnSeveralKeywords
        => appended
               = OverKeywords(LAMBDA kw :
                                  WithKeyword(kw,
                                              TheCriterion.match_type_keywords))


\* The line has been decided by a single criterion of one keyword.
DecidedOnOneKeyword ==
    /\ epc = "done"
    /\ OneCriterion
    /\ Len(TheCriterion.keywords) = 1

\* C26: a criterion of exactly one term gives the same under the term mode
\* AND and under the term mode OR, whatever the term (sentinel, number or
\* plain text) and whatever the source value; the decision taken on the
\* line is that boolean.
C26_OneTermIgnoresMode ==
    DecidedOnOneKeyword
        => /\ WithKeyword(TheCriterion.keywords[1], "AND")
                  = WithKeyword(TheCriterion.keywords[1], "OR")
           /\ appended = WithKeyword(TheCriterion.keywords[1], "OR")

\* The single term "!=empty" has been found false of a blank value, and is
\* false of it under the term mode OR as well.
C26_Witness ==
    /\ DecidedOnOneKeyword
    /\ TheCriterion.key = Str(K_a)
    /\ OnlyKeyword(S_not_empty)
    /\ json_obj = JDict(<<Entry(K_a, JStr(<<" ">>))>>)
    /\ ~appended
    /\ ~WithKeyword(S_not_empty, "OR")


\* The line handled holds a JSON value that is no object, and the filter is
\* a single criterion of plain terms.
NonObjectLine ==
    /\ Handled
    /\ json_obj.t # "dict"
    /\ OneCriterion
    /\ AllPlain

\* C27: a line whose value is no object is a record without fields: a
\* criterion on an exact or wildcard key finds nothing and its plain
\* terms are false, while a criterion of the general search still reads the
\* raw line and matches when its terms occur in it.
C27_NonObjectLineHasNoFields ==
    NonObjectLine
        => IF TheCriterion.key.none
           THEN appended
                    = OverKeywords(LAMBDA kw :
                                       Contains(kw, lower(line_stripped)))
           ELSE ~appended


\* ======================================================================
\* Properties of the chunking by line index
\* ======================================================================
\* The chunks have been built and submitted.
Submitted == lpc = "submitted"

\* The chunks submitted that hold line j (counted from 0).
ChunksHolding(j) ==
    {k \in 1..Len(chunks_data) :
        chunks_data[k].start_line_idx <= j /\ j < chunks_data[k].end_line_idx}

\* C30: with chunks of ceil(total_lines / N) lines, every line of the
\* content is in exactly one submitted chunk, the chunks cover consecutive
\* line ranges in order, at most N chunks are submitted and none of them
\* is empty; each chunk is the text of the lines of its range, and its task
\* handles exactly the non-blank lines among them, in order.
C30_LineChunksPartition ==
    Submitted
        => /\ \A j \in 0..(Len(content_lines) - 1) :
                  Cardinality(ChunksHolding(j)) = 1
           /\ Len(chunks_data) <= NUM_PARALLEL_PROCESSORS
           /\ \A k \in 1..Len(chunks_data) :
                  /\ chunks_data[k].start_line_idx < chunks_data[k].end_line_idx
                  /\ chunks_data[k].start_line_idx
                         = (IF k = 1 THEN 0
                            ELSE chunks_data[k - 1].end_line_idx)
                  /\ chunks_data[k].text
                         = join(<<"\n">>,
                                Slice(content_lines,
                                      chunks_data[k].start_line_idx,
                                      chunks_data[k].end_line_idx))
                  /\ seen[k].done
                         => seen[k].lines
                                = SelectSeq(Slice(content_lines,
                                                  chunks_data[k].start_line_idx,
                                                  chunks_data[k].end_line_idx),
                                            LAMBDA line : line # <<>>)
           /\ (chunks_data # <<>>
                   => chunks_data[Len(chunks_data)].end_line_idx
                          = Len(content_lines))
           /\ (content_lines = <<>> => chunks_data = <<>>)

\* Fewer chunks than processors were submitted for more lines than
\* processors, the last chunk is shorter than the others, and the task of a
\* chunk holding an empty line has handled its lines.
C30_Witness ==
    /\ Submitted
    /\ Len(content_lines) > NUM_PARALLEL_PROCESSORS
    /\ Len(chunks_data) < NUM_PARALLEL_PROCESSORS
    /\ \E k \in 1..Len(chunks_data) :
           /\ seen[k].done
           /\ Len(seen[k].lines)
                  < chunks_data[k].end_line_idx - chunks_data[k].start_line_idx
    /\ LET last == chunks_data[Len(chunks_data)]
       IN  last.end_line_idx - last.start_line_idx < chunk_size_lines


====
